---- MODULE Spec2Model ----
(***************************************************************************)
(* Model of src/main.py: the specific-head computation of the Streamlit    *)
(* script (lines 50-69).  Every widget change reruns the script from the   *)
(* top in a fresh namespace; the model follows one rerun statement by      *)
(* statement.                                                              *)
(*                                                                         *)
(* Numbers.  The script computes in IEEE doubles.  The model computes the  *)
(* same expressions, in the same order, in exact rational arithmetic: a    *)
(* number is a record [k |-> "num", s, n, m] of value s * n / m with       *)
(* s \in {-1, 0, 1} and n, m naturals (m > 0).  TLC's integers are 32 bits *)
(* wide, so the naturals n and m are little-endian sequences of limbs in   *)
(* base 10000 with no leading zero limb (<< >> is 0).  Rounding errors of  *)
(* the doubles (relative 1e-16) are not modelled.                          *)
(***************************************************************************)
EXTENDS Integers, Sequences, FiniteSets, TLC

-----------------------------------------------------------------------------
(* Natural numbers of arbitrary size *)

NatOf(i) ==
    IF i = 0 THEN << >>
    ELSE IF i < 10000 THEN << i >>
    ELSE IF i < 100000000 THEN << i % 10000, i \div 10000 >>
    ELSE << i % 10000, (i \div 10000) % 10000, i \div 100000000 >>

\* the value of a natural of at most two limbs, as an integer
IntOf(a) ==
    IF Len(a) = 0 THEN 0
    ELSE IF Len(a) = 1 THEN a[1]
    ELSE a[1] + 10000 * a[2]

RECURSIVE NAddC(_, _, _)
NAddC(a, b, c) ==
    IF a = << >> /\ b = << >>
    THEN (IF c = 0 THEN << >> ELSE << c >>)
    ELSE IF b = << >> /\ c = 0 THEN a
    ELSE IF a = << >> /\ c = 0 THEN b
    ELSE LET x == (IF a = << >> THEN 0 ELSE Head(a))
                  + (IF b = << >> THEN 0 ELSE Head(b)) + c
         IN  << x % 10000 >> \o NAddC(IF a = << >> THEN a ELSE Tail(a),
                                     IF b = << >> THEN b ELSE Tail(b),
                                     x \div 10000)

NAdd(a, b) == NAddC(a, b, 0)

RECURSIVE NStrip(_)
NStrip(a) ==
    IF a = << >> THEN a
    ELSE IF a[Len(a)] = 0 THEN NStrip(SubSeq(a, 1, Len(a) - 1))
    ELSE a

\* a - b for a >= b, limb by limb with a borrow
RECURSIVE NSubB(_, _, _)
NSubB(a, b, c) ==
    IF a = << >> THEN << >>
    ELSE LET x == Head(a) - (IF b = << >> THEN 0 ELSE Head(b)) - c
         IN  << (x + 10000) % 10000 >>
             \o NSubB(Tail(a), IF b = << >> THEN b ELSE Tail(b),
                      IF x < 0 THEN 1 ELSE 0)

NSub(a, b) == NStrip(NSubB(a, b, 0))

RECURSIVE NCmpAt(_, _, _)
NCmpAt(a, b, i) ==
    IF i = 0 THEN 0
    ELSE IF a[i] < b[i] THEN -1
    ELSE IF a[i] > b[i] THEN 1
    ELSE NCmpAt(a, b, i - 1)

\* -1, 0 or 1 as a < b, a = b or a > b
NCmp(a, b) ==
    IF Len(a) < Len(b) THEN -1
    ELSE IF Len(a) > Len(b) THEN 1
    ELSE NCmpAt(a, b, Len(a))

RECURSIVE NMulLimb(_, _, _)
NMulLimb(a, l, c) ==
    IF a = << >> THEN (IF c = 0 THEN << >> ELSE << c >>)
    ELSE LET x == Head(a) * l + c
         IN  << x % 10000 >> \o NMulLimb(Tail(a), l, x \div 10000)

RECURSIVE NMul(_, _)
NMul(a, b) ==
    IF a = << >> \/ b = << >> THEN << >>
    ELSE LET low  == IF Head(b) = 0 THEN << >> ELSE NMulLimb(a, Head(b), 0)
             high == NMul(a, Tail(b))
         IN  NAdd(low, IF high = << >> THEN high ELSE << 0 >> \o high)

RECURSIVE Gcd(_, _)
Gcd(i, j) == IF j = 0 THEN i ELSE Gcd(j, i % j)

-----------------------------------------------------------------------------
(* Rational numbers: the values of the script's floats *)

Rat(i, j) ==
    LET a == IF i < 0 THEN -i ELSE i
        c == Gcd(a, j)
    IN  [k |-> "num",
         s |-> IF i < 0 THEN -1 ELSE IF i = 0 THEN 0 ELSE 1,
         n |-> NatOf(a \div c),
         m |-> NatOf(j \div c)]

RInt(i) == Rat(i, 1)

\* the same value in lowest terms, when both parts are small enough for Gcd
RReduce(x) ==
    IF Len(x.n) <= 2 /\ Len(x.m) <= 2
    THEN LET c == Gcd(IntOf(x.n), IntOf(x.m))
         IN  [k |-> "num", s |-> x.s,
              n |-> NatOf(IntOf(x.n) \div c), m |-> NatOf(IntOf(x.m) \div c)]
    ELSE x

RIsZero(x) == x.s = 0

RNeg(x) == [k |-> "num", s |-> 0 - x.s, n |-> x.n, m |-> x.m]

RMul(x, y) ==
    IF x.s = 0 \/ y.s = 0 THEN RInt(0)
    ELSE RReduce([k |-> "num", s |-> x.s * y.s,
                  n |-> NMul(x.n, y.n), m |-> NMul(x.m, y.m)])

\* x / y for y # 0
RDiv(x, y) ==
    IF x.s = 0 THEN RInt(0)
    ELSE RReduce([k |-> "num", s |-> x.s * y.s,
                  n |-> NMul(x.n, y.m), m |-> NMul(x.m, y.n)])

RAdd(x, y) ==
    IF x.s = 0 THEN y
    ELSE IF y.s = 0 THEN x
    ELSE LET same == x.m = y.m
             a == IF same THEN x.n ELSE NMul(x.n, y.m)
             b == IF same THEN y.n ELSE NMul(y.n, x.m)
             den == IF same THEN x.m ELSE NMul(x.m, y.m)
             c == NCmp(a, b)
         IN  IF x.s = y.s
             THEN RReduce([k |-> "num", s |-> x.s, n |-> NAdd(a, b), m |-> den])
             ELSE IF c = 0 THEN RInt(0)
             ELSE IF c > 0
             THEN RReduce([k |-> "num", s |-> x.s, n |-> NSub(a, b), m |-> den])
             ELSE RReduce([k |-> "num", s |-> y.s, n |-> NSub(b, a), m |-> den])

RSub(x, y) == RAdd(x, RNeg(y))

\* -1, 0 or 1 as x < y, x = y or x > y
RCmp(x, y) ==
    IF x.s # y.s THEN (IF x.s < y.s THEN -1 ELSE 1)
    ELSE IF x.s = 0 THEN 0
    ELSE x.s * (IF x.m = y.m THEN NCmp(x.n, y.n)
                ELSE NCmp(NMul(x.n, y.m), NMul(y.n, x.m)))

RLt(x, y) == RCmp(x, y) < 0
RLe(x, y) == RCmp(x, y) <= 0
REq(x, y) == RCmp(x, y) = 0

RAbs(x) == [k |-> "num", s |-> IF x.s = 0 THEN 0 ELSE 1, n |-> x.n, m |-> x.m]

-----------------------------------------------------------------------------
(* Values.  Every value is a record with a field k: a number ("num"), an   *)
(* array ("arr", numpy array or pandas column), the data frame ("df"), a   *)
(* Froude number ("quotsqrt"), numpy's inf or nan, or nothing yet.         *)

\* a name the current run has not assigned yet
Undef == [k |-> "undef"]

\* numpy's inf or nan, the result of a numpy division by zero
NonFinite == [k |-> "nonfinite"]

IsNum(x) == x.k = "num"

Arr(seq) == [k |-> "arr", v |-> seq]

-----------------------------------------------------------------------------
(* The script's constants and widgets.  Widget values are multiples of     *)
(* 0.01, the default step of a float slider or number input; the widget    *)
(* limits and defaults below are in hundredths.                            *)

g == Rat(981, 100)

\* all hundredths 0 .. MaxSmallQ are tried, next to values spread over the
\* range; likewise for ho and, on both sides of 0, for delta_h
MaxSmallQ == 2
MaxSmallHo == 1
MaxSmallDeltaH == 0

QMin == 0
QMax == 1000
QDefault == 500
HoMin == 0
HoMax == 1000
HoDefault == 500
DeltaHMin == -1000
DeltaHMax == 1000
DeltaHDefault == 0

QValues ==
    {Rat(c, 100) : c \in {b \in (0..MaxSmallQ) \cup {10, 100, QDefault, QMax} :
                            QMin <= b /\ b <= QMax}}

HoValues ==
    {Rat(c, 100) : c \in {b \in (0..MaxSmallHo) \cup {20, 100, 200, HoDefault, HoMax} :
                            HoMin <= b /\ b <= HoMax}}

DeltaHValues ==
    {Rat(c, 100) : c \in {b \in ((0 - MaxSmallDeltaH)..MaxSmallDeltaH)
                                 \cup {DeltaHMin, -100, 200, DeltaHMax} :
                            DeltaHMin <= b /\ b <= DeltaHMax}}

\* a variant of DepthStart: the samples start at depth 0
DepthStartZero == RInt(0)

DepthStart == Rat(1, 100)
DepthStop == RInt(10)
NumSamples == 100

-----------------------------------------------------------------------------
(* The pure computations *)

\* np.linspace(start, stop, num): start + i * step for i = 0 .. num - 1
Linspace(start, stop, num) ==
    LET step == RDiv(RSub(stop, start), RInt(num - 1))
    IN  Arr([i \in 1..num |-> RAdd(start, RMul(RInt(i - 1), step))])

\* a numpy division: dividing by zero yields inf or nan, no exception
NpDiv(x, y) ==
    IF ~IsNum(x) \/ ~IsNum(y) THEN NonFinite
    ELSE IF RIsZero(y) THEN NonFinite
    ELSE RDiv(x, y)

\* a variant of SpecificHead: the depth is not squared
SpecificHeadDepthNotSquared(qq, x) ==
    LET t == NpDiv(RMul(qq, qq), RMul(RMul(RInt(2), g), x))
    IN  IF IsNum(t) THEN RAdd(t, x) ELSE NonFinite

\* a variant of SpecificHead: "+ d" is read into the divisor
SpecificHeadDepthInDivisor(qq, x) ==
    NpDiv(RMul(qq, qq), RAdd(RMul(RMul(RInt(2), g), RMul(x, x)), x))

\* q ** 2 / (2 * g * d ** 2) + d for one element x of d
SpecificHead(qq, x) ==
    LET t == NpDiv(RMul(qq, qq), RMul(RMul(RInt(2), g), RMul(x, x)))
    IN  IF IsNum(t) THEN RAdd(t, x) ELSE NonFinite

\* a variant of UpstreamDivisor: ho is floored at 0.01 before it is used
UpstreamDivisorFloored(hh) ==
    LET floored == IF RLt(hh, Rat(1, 100)) THEN Rat(1, 100) ELSE hh
    IN  RMul(RMul(RInt(2), g), RMul(floored, floored))

\* the divisor 2 * g * ho ** 2 of the upstream depth
UpstreamDivisor(hh) == RMul(RMul(RInt(2), g), RMul(hh, hh))

\* ho + q ** 2 / (2 * g * ho ** 2), for a nonzero divisor
UpstreamDepth(qq, hh) == RAdd(hh, RDiv(RMul(qq, qq), UpstreamDivisor(hh)))

LIKELY_IN_CACHE_SIZE == 8

\* the bisection loop of numpy's binary_search_with_guess; indices from 0
RECURSIVE Bisect(_, _, _, _)
Bisect(key, arr, imin, imax) ==
    IF imin < imax
    THEN LET imid == imin + ((imax - imin) \div 2)
         IN  IF RLe(arr[imid + 1], key)
             THEN Bisect(key, arr, imid + 1, imax)
             ELSE Bisect(key, arr, imin, imid)
    ELSE imin - 1

RECURSIVE LinearSearch(_, _, _)
LinearSearch(key, arr, i) ==
    IF i < Len(arr) /\ RLe(arr[i + 1], key)
    THEN LinearSearch(key, arr, i + 1)
    ELSE i - 1

\* a variant of OutOfRange: the first sample is tested before the last
OutOfRangeFirstSampleFirst(key, arr) ==
    IF RLt(key, arr[1]) THEN -1
    ELSE IF RLt(arr[Len(arr)], key) THEN Len(arr)
    ELSE 0

\* the two tests binary_search_with_guess starts with, in its order: len
\* when key > arr[len-1], else -1 when key < arr[0], else 0 (inside)
OutOfRange(key, arr) ==
    IF RLt(arr[Len(arr)], key) THEN Len(arr)
    ELSE IF RLt(key, arr[1]) THEN -1
    ELSE 0

\* numpy's binary_search_with_guess(key, arr, len, guess); indices from 0:
\* len or -1 for a key outside, else an index j with arr[j] <= key, and
\* key < arr[j+1] unless j = len - 1
BinarySearchWithGuess(key, arr, guess0) ==
    LET len == Len(arr)
        out == OutOfRange(key, arr)
        guess == IF guess0 > len - 3
                 THEN (IF len - 3 < 1 THEN 1 ELSE len - 3)
                 ELSE IF guess0 < 1 THEN 1 ELSE guess0
        A(i) == arr[i + 1]
    IN  IF out # 0 THEN out
        ELSE IF len <= 4 THEN LinearSearch(key, arr, 1)
        ELSE IF RLt(key, A(guess))
        THEN IF RLt(key, A(guess - 1))
             THEN Bisect(key, arr,
                         IF guess > LIKELY_IN_CACHE_SIZE
                            /\ RLe(A(guess - LIKELY_IN_CACHE_SIZE), key)
                         THEN guess - LIKELY_IN_CACHE_SIZE ELSE 0,
                         guess - 1)
             ELSE guess - 1
        ELSE IF RLt(key, A(guess + 1)) THEN guess
        ELSE IF RLt(key, A(guess + 2)) THEN guess + 1
        ELSE Bisect(key, arr, guess + 2,
                    IF guess < len - LIKELY_IN_CACHE_SIZE - 1
                       /\ RLt(key, A(guess + LIKELY_IN_CACHE_SIZE))
                    THEN guess + LIKELY_IN_CACHE_SIZE ELSE len)

\* np.interp(x, xp, fp) for a scalar x and columns xp, fp: fp[0] left of
\* xp, fp[-1] right of it, else the point at x of the straight line through
\* (xp[j], fp[j]) and (xp[j+1], fp[j+1])
Interp(x, xp, fp) ==
    LET len == Len(xp.v)
        j == BinarySearchWithGuess(x, xp.v, 0)
    IN  IF j = -1 THEN fp.v[1]
        ELSE IF j = len THEN fp.v[len]
        ELSE IF j = len - 1 THEN fp.v[j + 1]
        ELSE IF REq(xp.v[j + 1], x) THEN fp.v[j + 1]
        ELSE LET slope == RDiv(RSub(fp.v[j + 2], fp.v[j + 1]),
                               RSub(xp.v[j + 2], xp.v[j + 1]))
             IN  RAdd(RMul(slope, RSub(x, xp.v[j + 1])), fp.v[j + 1])

\* U / np.sqrt(g * depth): kept as the pair (U, g * depth), of value
\* num / sqrt(rad); not finite when the radicand is not positive
Froude(uu, depth) ==
    IF ~IsNum(uu) \/ ~IsNum(depth) THEN NonFinite
    ELSE IF RLe(RMul(g, depth), RInt(0)) THEN NonFinite
    ELSE [k |-> "quotsqrt", num |-> uu, rad |-> RMul(g, depth)]

\* pd.DataFrame({"Depth": d, "Specific Head": Ho})
DataFrame(depth, head) ==
    [k |-> "df",
     col |-> [c \in {"Depth", "Specific Head"} |->
                 IF c = "Depth" THEN depth ELSE head]]

-----------------------------------------------------------------------------
(* The state: the widget values, the line the run is at, the exception it  *)
(* raised if any, and the names the script assigns.                        *)

VARIABLES q, ho, delta_h, pc, exc, d, Ho, df, d1, Ho1, Ho2, d2, U1, U2, Fr1, Fr2

inputs == << q, ho, delta_h >>
vars == << q, ho, delta_h, pc, exc, d, Ho, df, d1, Ho1, Ho2, d2, U1, U2, Fr1, Fr2 >>

\* the statements of lines 55-69 in order; "done" follows the last
Lines == << "L55", "L56", "L57", "L60", "L61", "L62", "L63",
            "L66", "L67", "L68", "L69", "done" >>

LineNo(l) == CHOOSE i \in 1..Len(Lines) : Lines[i] = l

\* the statement at line l has been executed in the current run
Past(l) == LineNo(pc) > LineNo(l)

\* a variant of Fresh: the namespace of the previous run is kept
Stale(old) == old

\* what a name holds when a run starts, old being what it held before
Fresh(old) == Undef

\* a run starts: a new namespace, execution at line 55
Rerun ==
    /\ pc' = "L55"
    /\ exc' = "none"
    /\ d' = Fresh(d) /\ Ho' = Fresh(Ho) /\ df' = Fresh(df)
    /\ d1' = Fresh(d1) /\ Ho1' = Fresh(Ho1) /\ Ho2' = Fresh(Ho2) /\ d2' = Fresh(d2)
    /\ U1' = Fresh(U1) /\ U2' = Fresh(U2) /\ Fr1' = Fresh(Fr1) /\ Fr2' = Fresh(Fr2)

Init ==
    /\ q = Rat(QDefault, 100)
    /\ ho = Rat(HoDefault, 100)
    /\ delta_h = Rat(DeltaHDefault, 100)
    /\ pc = "L55"
    /\ exc = "none"
    /\ d = Undef /\ Ho = Undef /\ df = Undef
    /\ d1 = Undef /\ Ho1 = Undef /\ Ho2 = Undef /\ d2 = Undef
    /\ U1 = Undef /\ U2 = Undef /\ Fr1 = Undef /\ Fr2 = Undef

\* the user moves a widget: the script is rerun with the new value
SetQ ==
    \E v \in QValues : v # q /\ q' = v /\ UNCHANGED << ho, delta_h >> /\ Rerun

SetHo ==
    \E v \in HoValues : v # ho /\ ho' = v /\ UNCHANGED << q, delta_h >> /\ Rerun

SetDeltaH ==
    \E v \in DeltaHValues :
        v # delta_h /\ delta_h' = v /\ UNCHANGED << q, ho >> /\ Rerun

Running(l) == pc = l /\ exc = "none"

Step55 ==
    /\ Running("L55")
    /\ d' = Linspace(DepthStart, DepthStop, NumSamples)
    /\ pc' = "L56"
    /\ UNCHANGED << inputs, exc, Ho, df, d1, Ho1, Ho2, d2, U1, U2, Fr1, Fr2 >>

Step56 ==
    /\ Running("L56")
    /\ Ho' = Arr([i \in 1..Len(d.v) |-> SpecificHead(q, d.v[i])])
    /\ pc' = "L57"
    /\ UNCHANGED << inputs, exc, d, df, d1, Ho1, Ho2, d2, U1, U2, Fr1, Fr2 >>

Step57 ==
    /\ Running("L57")
    /\ df' = DataFrame(d, Ho)
    /\ pc' = "L60"
    /\ UNCHANGED << inputs, exc, d, Ho, d1, Ho1, Ho2, d2, U1, U2, Fr1, Fr2 >>

\* a division of Python floats: a zero divisor raises ZeroDivisionError
\* and the run ends at this line
Step60 ==
    /\ Running("L60")
    /\ IF RIsZero(UpstreamDivisor(ho))
       THEN exc' = "ZeroDivisionError" /\ pc' = pc /\ d1' = d1
       ELSE exc' = exc /\ pc' = "L61" /\ d1' = UpstreamDepth(q, ho)
    /\ UNCHANGED << inputs, d, Ho, df, Ho1, Ho2, d2, U1, U2, Fr1, Fr2 >>

Step61 ==
    /\ Running("L61")
    /\ Ho1' = RAdd(ho, d1)
    /\ pc' = "L62"
    /\ UNCHANGED << inputs, exc, d, Ho, df, d1, Ho2, d2, U1, U2, Fr1, Fr2 >>

Step62 ==
    /\ Running("L62")
    /\ Ho2' = RSub(Ho1, delta_h)
    /\ pc' = "L63"
    /\ UNCHANGED << inputs, exc, d, Ho, df, d1, Ho1, d2, U1, U2, Fr1, Fr2 >>

Step63 ==
    /\ Running("L63")
    /\ d2' = Interp(Ho2, df.col["Specific Head"], df.col["Depth"])
    /\ pc' = "L66"
    /\ UNCHANGED << inputs, exc, d, Ho, df, d1, Ho1, Ho2, U1, U2, Fr1, Fr2 >>

\* q and d1 are Python floats: a zero d1 would raise
Step66 ==
    /\ Running("L66")
    /\ IF RIsZero(d1)
       THEN exc' = "ZeroDivisionError" /\ pc' = pc /\ U1' = U1
       ELSE exc' = exc /\ pc' = "L67" /\ U1' = RDiv(q, d1)
    /\ UNCHANGED << inputs, d, Ho, df, d1, Ho1, Ho2, d2, U2, Fr1, Fr2 >>

\* d2 is a numpy float: numpy's division
Step67 ==
    /\ Running("L67")
    /\ U2' = NpDiv(q, d2)
    /\ pc' = "L68"
    /\ UNCHANGED << inputs, exc, d, Ho, df, d1, Ho1, Ho2, d2, U1, Fr1, Fr2 >>

Step68 ==
    /\ Running("L68")
    /\ Fr1' = Froude(U1, d1)
    /\ pc' = "L69"
    /\ UNCHANGED << inputs, exc, d, Ho, df, d1, Ho1, Ho2, d2, U1, U2, Fr2 >>

Step69 ==
    /\ Running("L69")
    /\ Fr2' = Froude(U2, d2)
    /\ pc' = "done"
    /\ UNCHANGED << inputs, exc, d, Ho, df, d1, Ho1, Ho2, d2, U1, U2, Fr1 >>

Next ==
    \/ SetQ \/ SetHo \/ SetDeltaH
    \/ Step55 \/ Step56 \/ Step57
    \/ Step60 \/ Step61 \/ Step62 \/ Step63
    \/ Step66 \/ Step67 \/ Step68 \/ Step69

Spec == Init /\ [][Next]_vars

-----------------------------------------------------------------------------
(* Vocabulary of the properties *)

\* the sample spacing (10 - 0.01) / 99, the tolerance of every "about equal"
Spacing == RDiv(RSub(DepthStop, DepthStart), RInt(NumSamples - 1))

Approx(x, y, tol) == IsNum(x) /\ IsNum(y) /\ RLe(RAbs(RSub(x, y)), tol)

Milli == Rat(1, 1000)

Cube(x) == RMul(x, RMul(x, x))

Positive(x) == IsNum(x) /\ x.s = 1

\* the run has ended: at its last statement, or by an exception
Terminal == pc = "done" \/ exc # "none"

Samples == 1..NumSamples

-----------------------------------------------------------------------------
\* C1: inverting the sampled curve at the specific head of a sampled depth
\* returns that depth to within one sample spacing, for every q and sample.
C1_RoundTrip ==
    Past("L57") =>
        \A i \in Samples :
            Approx(Interp(Ho.v[i], df.col["Specific Head"], df.col["Depth"]),
                   d.v[i], Spacing)

\* C2: with delta_h = 0 and ho > 0 a finished run has Ho2 = Ho1 and d2 about
\* d1; for q = 5, ho = 5 it has d1 about 5.051 and Ho1 about 10.101.
C2_NoStep ==
    (pc = "done" /\ RIsZero(delta_h) /\ Positive(ho)) =>
        /\ REq(Ho2, Ho1)
        /\ Approx(d2, d1, Spacing)
        /\ (q = RInt(5) /\ ho = RInt(5)) =>
              /\ Approx(d1, Rat(5051, 1000), Milli)
              /\ Approx(Ho1, Rat(10101, 1000), Milli)

\* C3 as stated: with ho = 0 the run goes past line 60 without an error and
\* d1 and the results derived from it are not-a-number values.
C3_NaNPropagates ==
    (RIsZero(ho) /\ (Past("L57") /\ ~Running("L60"))) =>
        /\ exc = "none"
        /\ Past("L60")
        /\ d1 = NonFinite

\* C3 amended: with ho = 0 (any q, q = 0 included) the run stops at line 60
\* with ZeroDivisionError: the curve is built, and d1, Ho1, Ho2, d2, U1, U2,
\* Fr1 and Fr2 are never assigned.
C3_RaisesAtHoZero ==
    (RIsZero(ho) /\ (Past("L57") /\ ~Running("L60"))) =>
        /\ exc = "ZeroDivisionError" /\ pc = "L60"
        /\ d.k = "arr" /\ Ho.k = "arr" /\ df.k = "df"
        /\ \A x \in {d1, Ho1, Ho2, d2, U1, U2, Fr1, Fr2} : x = Undef

C3_Witness ==
    RIsZero(ho) /\ RIsZero(q) /\ exc = "ZeroDivisionError" /\ pc = "L60"

\* C4: for ho > 0 a finished run has U1 = q / d1, Fr1 = U1 / sqrt(g * d1)
\* and Ho1 = d1 + U1^2 / (2 g): P1 = (d1, Ho1) is on the specific-head curve.
C4_UpstreamFlowState ==
    (pc = "done" /\ Positive(ho)) =>
        /\ REq(U1, RDiv(q, d1))
        /\ Fr1.k = "quotsqrt" /\ REq(Fr1.num, U1) /\ REq(Fr1.rad, RMul(g, d1))
        /\ REq(Ho1, RAdd(d1, RDiv(RMul(U1, U1), RMul(RInt(2), g))))
        /\ REq(Ho1, SpecificHead(q, d1))

\* C5: for ho > 0 the downstream depth of a finished run solves the
\* specific-head equation to within one sample spacing, Ho(d2) about Ho2 =
\* Ho1 - delta_h; for q = 5, ho = 1, delta_h = 2 with d1 about 2.274, Ho1
\* about 3.274 and Ho2 about 1.274.
C5_DownstreamOnCurve ==
    (pc = "done" /\ Positive(ho)) =>
        /\ REq(Ho2, RSub(Ho1, delta_h))
        /\ Approx(SpecificHead(q, d2), Ho2, Spacing)
        /\ (q = RInt(5) /\ ho = RInt(1) /\ delta_h = RInt(2)) =>
              /\ Approx(d1, Rat(2274, 1000), Milli)
              /\ Approx(Ho1, Rat(3274, 1000), Milli)
              /\ Approx(Ho2, Rat(1274, 1000), Milli)

C7_CurveShape ==
    (Running("L57") /\ Positive(q)) =>
        LET qsq == RMul(q, q)
            \* the sign of Ho[i] - Ho[i+1], and of q^2 - g d[i]^3
            step == [i \in 1..(NumSamples - 1) |-> RCmp(Ho.v[i], Ho.v[i + 1])]
            side == [i \in Samples |-> RCmp(qsq, RMul(g, Cube(d.v[i])))]
            low == Cardinality({i \in DOMAIN step : step[i] = 1}) + 1
        IN  /\ \A i \in DOMAIN step : step[i] = (IF i < low THEN 1 ELSE -1)
            /\ low = 1 \/ side[low - 1] = 1
            /\ low = NumSamples \/ side[low + 1] = -1
            /\ \A i \in DOMAIN step :
                  /\ side[i + 1] >= 0 => step[i] = 1
                  /\ side[i] <= 0 => step[i] = -1
            /\ \A i \in Samples :
                  LET u == RDiv(q, d.v[i])
                      frsq == RDiv(RMul(u, u), RMul(g, d.v[i]))
                  IN  RCmp(frsq, RInt(1)) = side[i]

C7_Witness ==
    /\ Running("L57") /\ Positive(q)
    /\ RLt(Ho.v[2], Ho.v[1]) /\ RLt(Ho.v[3], Ho.v[2])
    /\ RLt(Ho.v[NumSamples - 1], Ho.v[NumSamples])

\* the results of one evaluation of lines 55-69 on the inputs alone
Outputs(qq, hh, dh) ==
    LET depth == Linspace(DepthStart, DepthStop, NumSamples)
        head == Arr([i \in Samples |-> SpecificHead(qq, depth.v[i])])
        up == UpstreamDepth(qq, hh)
        head1 == RAdd(hh, up)
        head2 == RSub(head1, dh)
        down == Interp(head2, head, depth)
        vel1 == RDiv(qq, up)
        vel2 == NpDiv(qq, down)
    IN  IF RIsZero(UpstreamDivisor(hh))
        THEN << depth, head, DataFrame(depth, head),
                Undef, Undef, Undef, Undef, Undef, Undef, Undef, Undef >>
        ELSE << depth, head, DataFrame(depth, head), up, head1, head2, down,
                vel1, vel2, Froude(vel1, up), Froude(vel2, down) >>

\* the line that assigns each name, in the order of Outputs
AssignedAt == << "L55", "L56", "L57", "L60", "L61", "L62", "L63",
                 "L66", "L67", "L68", "L69" >>

\* C8: the results are a function of the current inputs only: when a run
\* has ended, every name holds what one evaluation on the current q, ho and
\* delta_h gives, whatever was evaluated before; and during a run a name
\* holds a value only if the current run has assigned it.
C8_OutputsOfCurrentInputs ==
    LET now == << d, Ho, df, d1, Ho1, Ho2, d2, U1, U2, Fr1, Fr2 >>
    IN  /\ \A i \in 1..Len(now) : (now[i] # Undef) <=> Past(AssignedAt[i])
        /\ Terminal => now = Outputs(q, ho, delta_h)

C8_Witness ==
    /\ pc = "done"
    /\ q # Rat(QDefault, 100) /\ ho # Rat(HoDefault, 100)
    /\ delta_h # Rat(DeltaHDefault, 100)

\* C9: with q = 0 the specific head at every sampled depth is that depth, a
\* strictly rising line with no interior minimum, and for ho > 0 the
\* upstream depth is d1 = ho.
C9_ZeroDischarge ==
    RIsZero(q) =>
        /\ Past("L56") =>
              /\ \A i \in Samples : REq(Ho.v[i], d.v[i])
              /\ \A i \in 1..(NumSamples - 1) : RLt(Ho.v[i], Ho.v[i + 1])
        /\ (Past("L60") /\ Positive(ho)) => REq(d1, ho)

C9_Witness == RIsZero(q) /\ Positive(ho) /\ pc = "done"

\* C10 as stated: for ho > 0, d2 is in [0.01, 10]; d2 = 10 if Ho2 is above
\* the specific head of the last sample, and d2 = 0.01 if Ho2 is below the
\* specific head of the first sample.
C10_Saturation ==
    (Past("L63") /\ Positive(ho)) =>
        /\ RLe(DepthStart, d2) /\ RLe(d2, DepthStop)
        /\ RLt(Ho.v[NumSamples], Ho2) => d2 = DepthStop
        /\ RLt(Ho2, Ho.v[1]) => d2 = DepthStart

\* C10 amended: for ho > 0, d2 is in [0.01, 10]; d2 = 10 if Ho2 is above the
\* specific head of the last sample, also when it is below that of the
\* first; d2 = 0.01 if Ho2 is below the specific head of the first sample
\* and not above that of the last.
C10_SaturationLastSampleFirst ==
    (Past("L63") /\ Positive(ho)) =>
        /\ RLe(DepthStart, d2) /\ RLe(d2, DepthStop)
        /\ RLt(Ho.v[NumSamples], Ho2) => REq(d2, DepthStop)
        /\ (RLt(Ho2, Ho.v[1]) /\ RLe(Ho2, Ho.v[NumSamples]))
              => REq(d2, DepthStart)

C10_Witness ==
    /\ pc = "done" /\ Positive(ho)
    /\ RLt(Ho.v[NumSamples], Ho2) /\ RLt(Ho2, Ho.v[1])
    /\ REq(d2, DepthStop)

====
